---------------------------- MODULE Spec2Model ----------------------------
(***************************************************************************)
(* Telemetry-Dashboard: the per-tick car physics core (CarHandler.run_sim) *)
(* driven by the tick loop of sim.py, and the pit-wall server of           *)
(* dashboard/dash.py (variable dash), which the runs of the car leave      *)
(* aside.                                                                  *)
(*                                                                         *)
(* The Python code computes in binary floating point.  The model computes  *)
(* in fixed point, every quantity an integer number of the unit below, and *)
(* every division rounds towards minus infinity:                           *)
(*   time, dt, shift_timer      millisecond                                *)
(*   velocity                   cm/s                                       *)
(*   position, distance         1/4000 m  (so that the trapezoidal step    *)
(*                              (old_v + v)/2 * dt is exact for every dt   *)
(*                              that is a multiple of 50 ms)               *)
(*   throttle, brake, mu, fade  1/1000                                     *)
(*   temperature                1/1000 degree C                            *)
(*   tire wear                  1/1000000                                  *)
(*   force N, mass kg, acceleration mm/s^2, engine speed rpm,              *)
(*   torque 1/100 Nm, gear ratios 1/100, lengths of the wheel mm           *)
(* A lap-crossing time is kept as an exact rational number of ms.          *)
(***************************************************************************)
EXTENDS Integers, Sequences, FiniteSets, TLC

VARIABLES car, track, dt, sim_t, tel, exc, ticks, prev, start, shadow, dash

vars == <<car, track, dt, sim_t, tel, exc, ticks, prev, start, shadow, dash>>

----------------------------------------------------------------------------
(* Units and arithmetic helpers                                            *)

M(x) == x * 4000            \* metres        -> position units
Mps(x) == x * 100           \* m/s           -> velocity units
DegC(x) == x * 1000         \* degrees C     -> temperature units

Max(a, b) == IF a >= b THEN a ELSE b
Min(a, b) == IF a <= b THEN a ELSE b

\* floor(x * m / d) for d > 0 without forming the product x * m
MulDiv(x, m, d) == (x \div d) * m + ((x % d) * m) \div d

RECURSIVE SqrtSearch(_, _, _)
SqrtSearch(n, lo, hi) ==
    IF lo >= hi THEN lo
    ELSE LET mid == (lo + hi + 1) \div 2
         IN  IF mid * mid <= n THEN SqrtSearch(n, mid, hi)
                               ELSE SqrtSearch(n, lo, mid - 1)

\* math.sqrt on non-negative integers, rounded down
ISqrt(n) == SqrtSearch(n, 0, 46340)

\* math.log of x/1000, in 1/1000: powers of two are split off and the
\* mantissa in [1, 2) is interpolated between ln 1, ln 1.25, ln 1.5, ln 1.75, ln 2
LnMantissa(x) ==
    IF x < 1250 THEN ((x - 1000) * 223) \div 250
    ELSE IF x < 1500 THEN 223 + ((x - 1250) * 182) \div 250
    ELSE IF x < 1750 THEN 405 + ((x - 1500) * 155) \div 250
    ELSE 560 + ((x - 1750) * 133) \div 250

RECURSIVE LnMilli(_)
LnMilli(x) ==
    IF x >= 2000 THEN 693 + LnMilli(x \div 2)
    ELSE IF x < 1000 THEN LnMilli(2 * x) - 693
    ELSE LnMantissa(x)

----------------------------------------------------------------------------
(* Python mappings: a mapping is a function from its keys; None is the     *)
(* mapping NoneValue.  Get is dict.get(key, default).                      *)

NoneValue == [isNone |-> TRUE]
IsNone(m) == "isNone" \in DOMAIN m
EmptyDict == [k \in {} |-> 0]
HasKey(m, k) == k \in DOMAIN m
Get(m, k, d) == IF k \in DOMAIN m THEN m[k] ELSE d
OrEmpty(m) == IF IsNone(m) THEN EmptyDict ELSE m      \* (m or {})

----------------------------------------------------------------------------
(* Module constants of CarHandler.py                                       *)

G == 981                    \* 9.81 m/s^2 in cm/s^2
buffer_m == M(5)
rho_default == 1225         \* 1.225 kg/m^3 in 1/1000

\* dataclass TireState
TireState == [temp_C |-> DegC(70), wear |-> 0]

\* exact time  base + num / den  (ms), den > 0
Rat(b, n, d) == [base |-> b, num |-> n, den |-> d]

\* dataclass CarState with its default field values
CarState(id, spec) ==
    [car_id |-> id, carSpec |-> spec,
     velocity_mps |-> 0, track_position |-> 0, acceleration_mps |-> 19600,
     laps |-> 0, lap_start_time |-> 0, best_lap |-> Rat(0, 0, 1),
     braking_zone |-> M(-1), braking_meter |-> 0, velo_target |-> 0,
     tire_FL |-> TireState, tire_FR |-> TireState,
     tire_RL |-> TireState, tire_RR |-> TireState,
     brake_FL_C |-> DegC(200), brake_FR_C |-> DegC(200),
     brake_RL_C |-> DegC(200), brake_RR_C |-> DegC(200),
     tire_params |-> NoneValue, aero_params |-> NoneValue,
     engine_params |-> NoneValue, brake_params |-> NoneValue,
     mu_effective |-> 1300, throttle |-> 0, brake |-> 0,
     rpm |-> 1200, gear |-> 1, shift_timer |-> 0,
     active_corner_start |-> M(-2), active_corner_apex |-> M(-2),
     active_corner_exit |-> M(-2), past_apex |-> FALSE]

----------------------------------------------------------------------------
(* Corner tracker                                                          *)

IsCorner(seg) == seg.type = "corner"

\* index of the first corner segment, in list order, that starts strictly
\* ahead of pos; 0 when there is none
RECURSIVE CornerAhead(_, _, _)
CornerAhead(segs, pos, i) ==
    IF i > Len(segs) THEN 0
    ELSE IF IsCorner(segs[i]) /\ segs[i].s_meter > pos THEN i
    ELSE CornerAhead(segs, pos, i + 1)

\* index of the first corner segment of the list; 0 when there is none
RECURSIVE FirstCorner(_, _)
FirstCorner(segs, i) ==
    IF i > Len(segs) THEN 0
    ELSE IF IsCorner(segs[i]) THEN i
    ELSE FirstCorner(segs, i + 1)

\* variant that also takes a corner starting exactly at pos
SelectCorner_AtOrAhead(segs, pos) ==
    LET a == CornerAhead(segs, pos - 1, 1)
    IN  IF a # 0 THEN a ELSE FirstCorner(segs, 1)

\* the segment both corner scans settle on: the corner ahead, else the
\* first corner (wrap around), else 0
SelectCorner(segs, pos) ==
    LET a == CornerAhead(segs, pos, 1)
    IN  IF a # 0 THEN a ELSE FirstCorner(segs, 1)

\* math.sqrt(max(0.0, mu * G * radius)), in cm/s
CornerSpeed(mu, radius) == ISqrt(Max(0, (mu * G * radius) \div 10))

find_next_corner(c, trk) ==
    LET i == SelectCorner(trk.segments, c.track_position)
    IN  IF i = 0 THEN c
        ELSE [c EXCEPT !.braking_zone = trk.segments[i].s_meter,
                       !.velo_target = CornerSpeed(c.mu_effective,
                                                   trk.segments[i].radius_meter)]

\* getattr(seg, name, None): the attribute, or NoneValue when the Segment
\* has no such field
GetAttr(seg, name) == IF name \in DOMAIN seg THEN [value |-> seg[name]] ELSE NoneValue

get_corner_boundaries(seg, default_corner_length) ==
    LET start_s == seg.s_meter
        seg_len == GetAttr(seg, "length_meter")
        end_attr == GetAttr(seg, "end_s_meter")
        apex_attr == GetAttr(seg, "apex_s_meter")
        end_s == IF IsNone(end_attr)
                 THEN start_s + (IF ~IsNone(seg_len) THEN seg_len.value
                                                     ELSE default_corner_length)
                 ELSE end_attr.value
        apex_s == IF IsNone(apex_attr) THEN start_s + (end_s - start_s) \div 2
                                       ELSE apex_attr.value
    IN  [start_s |-> start_s, apex_s |-> apex_s, end_s |-> end_s]

\* need_new_corner that waits until the car is beyond the exit
need_new_corner_Beyond(c) ==
    (c.active_corner_exit < 0) \/ (c.track_position > c.active_corner_exit)

need_new_corner(c) ==
    (c.active_corner_exit < 0) \/ (c.track_position >= c.active_corner_exit)

\* the value _update_active_corner returns: TRUE when it has written the
\* boundaries of a corner
active_corner_updated(c, trk) ==
    need_new_corner(c) /\ SelectCorner(trk.segments, c.track_position) # 0

update_active_corner(c, trk) ==
    LET i == SelectCorner(trk.segments, c.track_position)
        b == get_corner_boundaries(trk.segments[i], M(60))
    IN  IF ~need_new_corner(c) \/ i = 0 THEN c
        ELSE [c EXCEPT !.active_corner_start = b.start_s,
                       !.active_corner_apex = b.apex_s,
                       !.active_corner_exit = b.end_s,
                       !.past_apex = FALSE,
                       !.velo_target = CornerSpeed(c.mu_effective,
                                                   trk.segments[i].radius_meter)]

----------------------------------------------------------------------------
(* Aerodynamics, tire friction, brake fade                                 *)

\* 0.5 * rho * coefficient * v * v, in N
AeroForce(rho, coeff, v) ==
    ((((rho * coeff) \div 1000) * ((v * v) \div 1000)) \div 1000) \div 20

calculate_aero_forces(c) ==
    LET ap == c.aero_params
        rho == IF IsNone(ap) THEN rho_default ELSE Get(ap, "rho", rho_default)
        ClA == IF IsNone(ap) THEN 0 ELSE Get(ap, "ClA", 0)
        CdA == IF IsNone(ap) THEN 0 ELSE Get(ap, "CdA", 0)
    IN  [F_down |-> AeroForce(rho, ClA, c.velocity_mps),
         F_drag |-> AeroForce(rho, CdA, c.velocity_mps)]

\* the subscripts tp[...] that _calculate_tire_friction evaluates; a missing
\* one raises KeyError before mu_effective is written
TireKeysPresent(tp) ==
    /\ HasKey(tp, "mu_peak_ref") /\ HasKey(tp, "Fz_ref_N")
    /\ HasKey(tp, "load_sensitivity") /\ HasKey(tp.load_sensitivity, "k_mu")
    /\ HasKey(tp, "temperature")
    /\ \A k \in {"optimal_C", "cold_C", "hot_C", "grip_drop_cold", "grip_drop_hot"} :
          HasKey(tp.temperature, k)
    /\ HasKey(tp, "wear") /\ HasKey(tp.wear, "mu_drop_at_full_wear")

\* per-tire temperature grip factor f_temp, in 1/1000
TempFactor(T, tmp) ==
    LET optC == tmp.optimal_C
        coldC == tmp.cold_C
        hotC == tmp.hot_C
        drop_cold == tmp.grip_drop_cold
        drop_hot == tmp.grip_drop_hot
    IN  IF T <= coldC THEN 1000 - drop_cold
        ELSE IF T >= hotC THEN 1000 - drop_hot
        ELSE LET f == IF T <= optC
                      THEN (1000 - drop_cold)
                           + ((T - coldC) * drop_cold) \div Max(1, optC - coldC)
                      ELSE (1000 - drop_hot)
                           + ((hotC - T) * drop_hot) \div Max(1, hotC - optC)
             IN  Max(200, Min(1000, f))

\* the local f_temp of each pass of the loop over the four tires; None
\* when the car has no tire parameters and the loop is not entered
TempFactors(c) ==
    IF IsNone(c.tire_params) THEN NoneValue
    ELSE [n \in {"tire_FL", "tire_FR", "tire_RL", "tire_RR"} |->
             TempFactor(c[n].temp_C, c.tire_params.temperature)]

\* per-tire friction  max(0.2, mu_load * f_temp * f_wear)
TireMu(tire, tp, mu_load) ==
    LET f_temp == TempFactor(tire.temp_C, tp.temperature)
        w == Max(0, Min(1000000, tire.wear))
        f_wear == 1000 - (tp.wear.mu_drop_at_full_wear * (w \div 1000)) \div 1000
    IN  Max(200, (((mu_load * f_temp) \div 1000) * f_wear) \div 1000)

\* the new mu_effective
calculate_tire_friction(c, mass, F_down) ==
    LET tp == c.tire_params
        Fz_total == (mass * G) \div 100 + F_down
        Fz_tire == Fz_total \div 4
        load_ratio == Max(100, (Fz_tire * 1000) \div Max(1, tp.Fz_ref_N))
        mu_load == (tp.mu_peak_ref
                    * (1000 - (tp.load_sensitivity.k_mu * LnMilli(load_ratio)) \div 1000))
                   \div 1000
    IN  IF IsNone(tp) THEN 1300
        ELSE (TireMu(c.tire_FL, tp, mu_load) + TireMu(c.tire_FR, tp, mu_load)
              + TireMu(c.tire_RL, tp, mu_load) + TireMu(c.tire_RR, tp, mu_load)) \div 4

\* FadeFactor without the branch that holds the factor at fade_min
FadeFactor_NoFloor(brake_temp_avg, fade_start, fade_end, fade_min) ==
    IF brake_temp_avg <= fade_start THEN 1000
    ELSE 1000 - ((brake_temp_avg - fade_start) * (1000 - fade_min))
                \div Max(1, fade_end - fade_start)

\* the fade factor for an average brake temperature
FadeFactor(brake_temp_avg, fade_start, fade_end, fade_min) ==
    IF brake_temp_avg <= fade_start THEN 1000
    ELSE IF brake_temp_avg >= fade_end THEN fade_min
    ELSE 1000 - ((brake_temp_avg - fade_start) * (1000 - fade_min))
                \div Max(1, fade_end - fade_start)

\* the brake parameters in force: the defaults, overridden by brake_params
BrakeFadeParams(c) ==
    LET bp == OrEmpty(c.brake_params)
    IN  [a_brake_base |-> Get(bp, "a_brake_base", 10000),
         fade_start |-> Get(bp, "fade_start_C", DegC(650)),
         fade_end |-> Get(bp, "fade_end_C", DegC(950)),
         fade_min |-> Get(bp, "fade_min", 700)]

calculate_brake_fade(c) ==
    LET bp == BrakeFadeParams(c)
        brake_temp_avg == (c.brake_FL_C + c.brake_FR_C + c.brake_RL_C + c.brake_RR_C) \div 4
        brake_fade == FadeFactor(brake_temp_avg, bp.fade_start, bp.fade_end, bp.fade_min)
        mu_ref == 1300
        grip_scale == Max(500, Min(1500, (c.mu_effective * 1000) \div Max(1, mu_ref)))
        a_brake_eff == Max(500, (((bp.a_brake_base * grip_scale) \div 1000) * brake_fade)
                                \div 1000)
    IN  [brake_fade |-> brake_fade, a_brake_eff |-> a_brake_eff,
         brake_temp_avg |-> brake_temp_avg]

----------------------------------------------------------------------------
(* Control policy                                                          *)

get_distance_to_corner_points(c, trk) ==
    LET da == c.active_corner_apex - c.track_position
        de == c.active_corner_exit - c.track_position
    IN  [dist_to_apex |-> IF da < 0 THEN da + trk.lap_length_meter ELSE da,
         dist_to_exit |-> IF de < 0 THEN de + trk.lap_length_meter ELSE de]

\* (v^2 - velo_target^2) / (2 * a_brake_eff) as a distance, 0 when the car
\* is not above a positive target
BrakingMeter(c, a_brake_eff) ==
    IF c.velocity_mps > c.velo_target /\ c.velo_target > 0
    THEN MulDiv(c.velocity_mps * c.velocity_mps - c.velo_target * c.velo_target,
                200, Max(1, a_brake_eff))
    ELSE 0

\* brake demand in 1/1000 (car.braking_meter is written by
\* update_throttle_and_brake below)
calculate_brake_demand(c, dist_to_apex, a_brake_eff) ==
    LET full_brake_dist == BrakingMeter(c, a_brake_eff) + buffer_m
        trail_braking_dist == M(1) \div 2
    IN  IF c.velocity_mps <= c.velo_target THEN 0
        ELSE IF ~c.past_apex /\ dist_to_apex <= full_brake_dist
             THEN IF dist_to_apex <= trail_braking_dist
                  THEN Max(0, (dist_to_apex * 1000) \div trail_braking_dist)
                  ELSE 1000
        ELSE 0

calculate_throttle_demand(c, dist_to_apex, a_brake_eff) ==
    LET full_brake_dist == BrakingMeter(c, a_brake_eff) + buffer_m
        exit_ramp_dist == M(5)
    IN  IF c.past_apex
        THEN Max(0, Min(1000, 1000 - dist_to_apex \div (exit_ramp_dist \div 1000)))
        ELSE IF dist_to_apex <= full_brake_dist THEN 0 ELSE 1000

\* variant that marks the apex only within 0.5 m of it
MarkApex_HalfMetre(c, dist_to_apex) ==
    IF dist_to_apex <= M(1) \div 2 THEN [c EXCEPT !.past_apex = TRUE] ELSE c

\* if dist_to_apex <= 1.0: car.past_apex = True
MarkApex(c, dist_to_apex) ==
    IF dist_to_apex <= M(1) THEN [c EXCEPT !.past_apex = TRUE] ELSE c

\* update_throttle_and_brake whose braking branch leaves car.throttle alone
update_throttle_and_brake_KeepThrottle(c, dist_to_apex, a_brake_eff) ==
    LET c1 == MarkApex(c, dist_to_apex)
        brake_demand == calculate_brake_demand(c1, dist_to_apex, a_brake_eff)
        throttle_demand == calculate_throttle_demand(c1, dist_to_apex, a_brake_eff)
        c2 == [c1 EXCEPT !.braking_meter = BrakingMeter(c1, a_brake_eff)]
    IN  IF brake_demand > 50
        THEN [c2 EXCEPT !.brake = brake_demand]
        ELSE IF throttle_demand > 50
        THEN [c2 EXCEPT !.throttle = throttle_demand, !.brake = 0]
        ELSE [c2 EXCEPT !.brake = 0, !.throttle = 0]

update_throttle_and_brake(c, dist_to_apex, a_brake_eff) ==
    LET c1 == MarkApex(c, dist_to_apex)
        brake_demand == calculate_brake_demand(c1, dist_to_apex, a_brake_eff)
        throttle_demand == calculate_throttle_demand(c1, dist_to_apex, a_brake_eff)
        c2 == [c1 EXCEPT !.braking_meter = BrakingMeter(c1, a_brake_eff)]
    IN  IF brake_demand > 50
        THEN [c2 EXCEPT !.brake = brake_demand, !.throttle = 0]
        ELSE IF throttle_demand > 50
        THEN [c2 EXCEPT !.throttle = throttle_demand, !.brake = 0]
        ELSE [c2 EXCEPT !.brake = 0, !.throttle = 0]

----------------------------------------------------------------------------
(* Powertrain                                                              *)

\* the 1e9 m/s default of top_speed_cap_mps does not fit the integers of
\* the model in cm/s; any velocity of the model is far below this stand-in
NoSpeedCap == 10 * 100000000

get_engine_parameters(ep) ==
    [idle_rpm |-> Get(ep, "idle_rpm", 1200),
     redline_rpm |-> Get(ep, "redline_rpm", 9000),
     shift_rpm |-> Get(ep, "shift_rpm", 8200),
     downshift_rpm |-> Get(ep, "downshift_rpm", 2500),
     gear_ratios |-> Get(ep, "gear_ratios", <<320, 230, 180, 145, 120, 100>>),
     final_drive |-> Get(ep, "final_drive", 370),
     wheel_radius_m |-> Get(ep, "wheel_radius_m", 330),
     driveline_eff |-> Get(ep, "drivetrain_eff", 920),
     top_speed_cap |-> Get(ep, "top_speed_cap_mps", NoSpeedCap),
     shift_time_s |-> Get(ep, "shift_time_s", 180),
     torque_curve |-> Get(ep, "torque_curve",
                          <<<<1000, 250>>, <<3000, 380>>, <<6000, 420>>,
                            <<8000, 390>>, <<9000, 320>>>>)]

\* wheel_omega * gear_ratio * final_drive * (60 / (2 * pi)), in rpm
RpmFromSpeed(v, gear_ratio, final_drive, wheel_radius_m) ==
    LET wheel_omega == (v * 10000) \div Max(1, wheel_radius_m)     \* 1/1000 rad/s
        shaft == (((wheel_omega * gear_ratio) \div 100) * final_drive) \div 100
    IN  ((shaft \div 1000) * 9549) \div 1000

\* update_gear_and_rpm whose upshift goes up two gears where there are two
update_gear_and_rpm_SkipGear(c, engine_params, tick_dt) ==
    LET idle_rpm == engine_params.idle_rpm
        redline_rpm == engine_params.redline_rpm
        shift_rpm == engine_params.shift_rpm
        downshift_rpm == engine_params.downshift_rpm
        gear_ratios == engine_params.gear_ratios
        final_drive == engine_params.final_drive
        wheel_radius_m == engine_params.wheel_radius_m
        shift_time == engine_params.shift_time_s
        max_gear == Max(1, Len(gear_ratios))
        gear0 == Max(1, Min(max_gear, c.gear))
        timer0 == IF c.shift_timer > 0 THEN Max(0, c.shift_timer - tick_dt)
                                       ELSE c.shift_timer
        rpm0 == Max(idle_rpm, RpmFromSpeed(c.velocity_mps, gear_ratios[gear0],
                                           final_drive, wheel_radius_m))
        upshift == /\ timer0 <= 0
                   /\ rpm0 >= shift_rpm /\ gear0 < max_gear
                   /\ (c.throttle > 300 \/ rpm0 >= shift_rpm + 200)
        downshift == /\ timer0 <= 0 /\ ~upshift
                     /\ rpm0 <= downshift_rpm /\ gear0 > 1
                     /\ (c.brake > 200 \/ c.throttle < 100)
        gear1 == IF upshift THEN Min(max_gear, gear0 + 2)
                 ELSE IF downshift THEN gear0 - 1 ELSE gear0
        timer1 == IF upshift \/ downshift THEN shift_time ELSE timer0
        rpm1 == Max(idle_rpm, Min(redline_rpm,
                    RpmFromSpeed(c.velocity_mps, gear_ratios[gear1],
                                 final_drive, wheel_radius_m)))
    IN  [c EXCEPT !.gear = gear1, !.shift_timer = timer1, !.rpm = rpm1]

update_gear_and_rpm(c, engine_params, tick_dt) ==
    LET idle_rpm == engine_params.idle_rpm
        redline_rpm == engine_params.redline_rpm
        shift_rpm == engine_params.shift_rpm
        downshift_rpm == engine_params.downshift_rpm
        gear_ratios == engine_params.gear_ratios
        final_drive == engine_params.final_drive
        wheel_radius_m == engine_params.wheel_radius_m
        shift_time == engine_params.shift_time_s
        max_gear == Max(1, Len(gear_ratios))
        gear0 == Max(1, Min(max_gear, c.gear))
        timer0 == IF c.shift_timer > 0 THEN Max(0, c.shift_timer - tick_dt)
                                       ELSE c.shift_timer
        rpm0 == Max(idle_rpm, RpmFromSpeed(c.velocity_mps, gear_ratios[gear0],
                                           final_drive, wheel_radius_m))
        upshift == /\ timer0 <= 0
                   /\ rpm0 >= shift_rpm /\ gear0 < max_gear
                   /\ (c.throttle > 300 \/ rpm0 >= shift_rpm + 200)
        downshift == /\ timer0 <= 0 /\ ~upshift
                     /\ rpm0 <= downshift_rpm /\ gear0 > 1
                     /\ (c.brake > 200 \/ c.throttle < 100)
        gear1 == IF upshift THEN gear0 + 1 ELSE IF downshift THEN gear0 - 1 ELSE gear0
        timer1 == IF upshift \/ downshift THEN shift_time ELSE timer0
        rpm1 == Max(idle_rpm, Min(redline_rpm,
                    RpmFromSpeed(c.velocity_mps, gear_ratios[gear1],
                                 final_drive, wheel_radius_m)))
    IN  [c EXCEPT !.gear = gear1, !.shift_timer = timer1, !.rpm = rpm1]

\* the torque curve at rpm_now, in 1/100 Nm: the first bracket
\* r0 <= rpm_now <= r1 in list order, the first point's torque if none
RECURSIVE CurveLookup(_, _, _)
CurveLookup(curve, rpm_now, i) ==
    IF i >= Len(curve) THEN curve[1][2] * 100
    ELSE LET r0 == curve[i][1]
             t0 == curve[i][2]
             r1 == curve[i + 1][1]
             t1 == curve[i + 1][2]
         IN  IF r0 <= rpm_now /\ rpm_now <= r1
             THEN t0 * 100 + ((rpm_now - r0) * (t1 - t0) * 100) \div Max(1, r1 - r0)
             ELSE CurveLookup(curve, rpm_now, i + 1)

\* calculate_torque without the cut during a gear shift
calculate_torque_NoCut(c, engine_params) ==
    LET torque_curve == engine_params.torque_curve
        n == Len(torque_curve)
        rpm_now == c.rpm
        at_rpm == IF rpm_now <= torque_curve[1][1] THEN torque_curve[1][2] * 100
                  ELSE IF rpm_now >= torque_curve[n][1] THEN torque_curve[n][2] * 100
                  ELSE CurveLookup(torque_curve, rpm_now, 1)
    IN  (at_rpm * Max(0, Min(1000, c.throttle))) \div 1000

calculate_torque(c, engine_params) ==
    LET torque_curve == engine_params.torque_curve
        n == Len(torque_curve)
        rpm_now == c.rpm
        at_rpm == IF rpm_now <= torque_curve[1][1] THEN torque_curve[1][2] * 100
                  ELSE IF rpm_now >= torque_curve[n][1] THEN torque_curve[n][2] * 100
                  ELSE CurveLookup(torque_curve, rpm_now, 1)
        scaled == (at_rpm * Max(0, Min(1000, c.throttle))) \div 1000
    IN  IF c.shift_timer > 0 THEN 0 ELSE scaled

----------------------------------------------------------------------------
(* Longitudinal dynamics                                                   *)

\* F_net and the acceleration a = F_net / max(1e-6, mass), in mm/s^2
Forces(F_drive, F_brake, F_rr, F_drag, mass) ==
    [F_drive |-> F_drive, F_brake |-> F_brake, F_rr |-> F_rr, F_drag |-> F_drag,
     F_net |-> F_drive - F_drag - F_rr - F_brake,
     a |-> ((F_drive - F_drag - F_rr - F_brake) * 1000) \div Max(1, mass)]

calculate_driving_force(c, mass, F_down, engine_params) ==
    LET torque_Nm == calculate_torque(c, engine_params)
        gear_ratio == engine_params.gear_ratios[c.gear]
        wheel_torque == (((((torque_Nm * gear_ratio) \div 100)
                           * engine_params.final_drive) \div 100)
                         * engine_params.driveline_eff) \div 1000
        F_raw == (wheel_torque * 10) \div Max(1, engine_params.wheel_radius_m)
        Fz_total == (mass * G) \div 100 + F_down
        F_trac_max == (c.mu_effective * Fz_total) \div 1000
        F_drive == Max(0 - F_trac_max, Min(F_trac_max, F_raw))
        a_brake_eff == calculate_brake_fade(c).a_brake_eff
        F_brake == (((c.brake * a_brake_eff) \div 1000) * mass) \div 1000
        tp == c.tire_params
        Crr == IF ~IsNone(tp) /\ HasKey(tp, "rr") /\ HasKey(tp.rr, "Crr")
               THEN tp.rr.Crr ELSE 15
        F_rr == (Crr * Fz_total) \div 1000
    IN  Forces(F_drive, F_brake, F_rr, calculate_aero_forces(c).F_drag, mass)

\* NewVelocity without the upper clamp
NewVelocity_NoCap(v, a, tick_dt, top_speed_cap) ==
    Max(0, v + (a * tick_dt) \div 10000)

\* max(0.0, min(top_speed_cap, v + a * dt))
NewVelocity(v, a, tick_dt, top_speed_cap) ==
    Max(0, Min(top_speed_cap, v + (a * tick_dt) \div 10000))

\* ((old_v + v) / 2.0) * dt in position units; dt is a multiple of 50 ms
Travel(old_v, v, tick_dt) == (old_v + v) * (tick_dt \div 50)

\* variant: the move also burns a kilogram of the fuel in the car's CarSpec
Moved_BurnsFuel(c, old_v, v, tick_dt) ==
    [c EXCEPT !.velocity_mps = v,
              !.track_position = c.track_position + Travel(old_v, v, tick_dt),
              !.carSpec.fuel_onboard_kg = Max(0, c.carSpec.fuel_onboard_kg - 1)]

\* car.velocity_mps = v; car.track_position += ((old_v + v) / 2.0) * dt
Moved(c, old_v, v, tick_dt) ==
    [c EXCEPT !.velocity_mps = v,
              !.track_position = c.track_position + Travel(old_v, v, tick_dt)]

----------------------------------------------------------------------------
(* Thermal and wear integrator                                             *)

\* rate (1/1000 per second) * factor (1/1000) * dt (ms)
Gain(rate, factor, tick_dt) == (((rate * factor) \div 1000) * tick_dt) \div 1000

\* cool_rate * (temp - ambient) * dt
Cooling(cool_rate, temp, ambient, tick_dt) ==
    ((((temp - ambient) * cool_rate) \div 1000) * tick_dt) \div 1000

\* TireAfter that gives the rear tires the front share of throttle heat
TireAfter_FrontShare(tire, front, brake, throttle, tick_dt, ep) ==
    LET cool_rate == Get(ep, "tire_cool_rate", 80)
        heat_brake == Get(ep, "tire_heat_brake", 18000)
        heat_accel == Get(ep, "tire_heat_accel", 8000)
        wear_brake == Get(ep, "tire_wear_brake", 500)
        wear_accel == Get(ep, "tire_wear_accel", 200)
        ambient == DegC(25)
        cooled == Max(0, tire.temp_C - Cooling(cool_rate, tire.temp_C, ambient, tick_dt))
        bshare == IF front THEN 10 ELSE 6
        ashare == 4
        bheat == IF brake > 100
                 THEN Gain((bshare * heat_brake) \div 10, brake, tick_dt) ELSE 0
        bwear == IF brake > 100
                 THEN Gain((bshare * wear_brake) \div 10, brake, tick_dt) ELSE 0
        aheat == IF throttle > 100
                 THEN Gain((ashare * heat_accel) \div 10, throttle, tick_dt) ELSE 0
        awear == IF throttle > 100
                 THEN Gain((ashare * wear_accel) \div 10, throttle, tick_dt) ELSE 0
    IN  [temp_C |-> cooled + bheat + aheat,
         wear |-> Max(0, Min(1000000, tire.wear + bwear + awear))]

\* TireAfter without the final clamp of the wear
TireAfter_WearUnclamped(tire, front, brake, throttle, tick_dt, ep) ==
    LET cool_rate == Get(ep, "tire_cool_rate", 80)
        heat_brake == Get(ep, "tire_heat_brake", 18000)
        heat_accel == Get(ep, "tire_heat_accel", 8000)
        wear_brake == Get(ep, "tire_wear_brake", 500)
        wear_accel == Get(ep, "tire_wear_accel", 200)
        ambient == DegC(25)
        cooled == Max(0, tire.temp_C - Cooling(cool_rate, tire.temp_C, ambient, tick_dt))
        bshare == IF front THEN 10 ELSE 6
        ashare == IF front THEN 4 ELSE 10
        bheat == IF brake > 100
                 THEN Gain((bshare * heat_brake) \div 10, brake, tick_dt) ELSE 0
        bwear == IF brake > 100
                 THEN Gain((bshare * wear_brake) \div 10, brake, tick_dt) ELSE 0
        aheat == IF throttle > 100
                 THEN Gain((ashare * heat_accel) \div 10, throttle, tick_dt) ELSE 0
        awear == IF throttle > 100
                 THEN Gain((ashare * wear_accel) \div 10, throttle, tick_dt) ELSE 0
    IN  [temp_C |-> cooled + bheat + aheat,
         wear |-> tire.wear + bwear + awear]

\* one tire after a tick: front is TRUE for FL and FR
TireAfter(tire, front, brake, throttle, tick_dt, ep) ==
    LET cool_rate == Get(ep, "tire_cool_rate", 80)
        heat_brake == Get(ep, "tire_heat_brake", 18000)
        heat_accel == Get(ep, "tire_heat_accel", 8000)
        wear_brake == Get(ep, "tire_wear_brake", 500)
        wear_accel == Get(ep, "tire_wear_accel", 200)
        ambient == DegC(25)
        cooled == Max(0, tire.temp_C - Cooling(cool_rate, tire.temp_C, ambient, tick_dt))
        bshare == IF front THEN 10 ELSE 6
        ashare == IF front THEN 4 ELSE 10
        bheat == IF brake > 100
                 THEN Gain((bshare * heat_brake) \div 10, brake, tick_dt) ELSE 0
        bwear == IF brake > 100
                 THEN Gain((bshare * wear_brake) \div 10, brake, tick_dt) ELSE 0
        aheat == IF throttle > 100
                 THEN Gain((ashare * heat_accel) \div 10, throttle, tick_dt) ELSE 0
        awear == IF throttle > 100
                 THEN Gain((ashare * wear_accel) \div 10, throttle, tick_dt) ELSE 0
    IN  [temp_C |-> cooled + bheat + aheat,
         wear |-> Max(0, Min(1000000, tire.wear + bwear + awear))]

apply_tire_heating_and_wear(c, tick_dt, ep) ==
    [c EXCEPT !.tire_FL = TireAfter(c.tire_FL, TRUE, c.brake, c.throttle, tick_dt, ep),
              !.tire_FR = TireAfter(c.tire_FR, TRUE, c.brake, c.throttle, tick_dt, ep),
              !.tire_RL = TireAfter(c.tire_RL, FALSE, c.brake, c.throttle, tick_dt, ep),
              !.tire_RR = TireAfter(c.tire_RR, FALSE, c.brake, c.throttle, tick_dt, ep)]

\* one brake disc after a tick
BrakeAfter(cur, front, brake, tick_dt, ep) ==
    LET ambient == DegC(25)
        brake_cool == Get(ep, "brake_cool_rate", 100)
        brake_heat_per_brake == Get(ep, "brake_heat_gain", 120000)
        cooled == Max(ambient, cur - Cooling(brake_cool, cur, ambient, tick_dt))
        heat == Gain(brake_heat_per_brake, brake, tick_dt)
    IN  IF brake > 0 THEN cooled + (IF front THEN heat ELSE (6 * heat) \div 10)
                     ELSE cooled

apply_brake_heating_and_cooling(c, tick_dt, ep) ==
    [c EXCEPT !.brake_FL_C = BrakeAfter(c.brake_FL_C, TRUE, c.brake, tick_dt, ep),
              !.brake_FR_C = BrakeAfter(c.brake_FR_C, TRUE, c.brake, tick_dt, ep),
              !.brake_RL_C = BrakeAfter(c.brake_RL_C, FALSE, c.brake, tick_dt, ep),
              !.brake_RR_C = BrakeAfter(c.brake_RR_C, FALSE, c.brake, tick_dt, ep)]

----------------------------------------------------------------------------
(* Lap timer                                                               *)

\* CrossingTime with the earlier formula distance_from_start =
\* track_position - old_pos
CrossingTime_Historic(lap_length, old_pos, pos, tick_dt, t) ==
    LET distance_from_start == pos - old_pos
        distance_traveled == pos - old_pos
    IN  IF distance_traveled > 0
        THEN Rat(t - tick_dt, distance_from_start * tick_dt, distance_traveled)
        ELSE Rat(t - tick_dt, 0, 1)

\* (sim_t - dt) + time_frac * dt, exactly
CrossingTime(lap_length, old_pos, pos, tick_dt, t) ==
    LET distance_from_start == lap_length - old_pos
        distance_traveled == pos - old_pos
    IN  IF distance_traveled > 0
        THEN Rat(t - tick_dt, distance_from_start * tick_dt, distance_traveled)
        ELSE Rat(t - tick_dt, 0, 1)

\* variant that puts the car on the line when the lap is counted
handle_lap_completion_OnLine(c, trk, tick_dt, t, old_pos) ==
    IF c.track_position >= trk.lap_length_meter
    THEN [c EXCEPT !.laps = c.laps + 1,
                   !.best_lap = CrossingTime(trk.lap_length_meter, old_pos,
                                             c.track_position, tick_dt, t),
                   !.track_position = 0]
    ELSE c

handle_lap_completion(c, trk, tick_dt, t, old_pos) ==
    IF c.track_position >= trk.lap_length_meter
    THEN [c EXCEPT !.laps = c.laps + 1,
                   !.best_lap = CrossingTime(trk.lap_length_meter, old_pos,
                                             c.track_position, tick_dt, t),
                   !.track_position = c.track_position - trk.lap_length_meter]
    ELSE c

----------------------------------------------------------------------------
(* run_sim                                                                 *)

TelemetryNone == NoneValue

\* Telemetry that stamps the mapping with the time the call took
Telemetry_Timed(c, t, brake_temp_avg, aero, process_time) ==
    [t |-> t + process_time, car_id |-> c.car_id, v_mps |-> c.velocity_mps,
     x_m |-> c.track_position, laps |-> c.laps,
     mu_eff |-> c.mu_effective, throttle |-> c.throttle,
     brake |-> c.brake, gear |-> c.gear, rpm |-> c.rpm,
     brake_temp_avg_C |-> brake_temp_avg,
     downforce_N |-> aero.F_down, drag_N |-> aero.F_drag]

\* the mapping run_sim returns; process_time is in scope at the return
\* statement and is not used by it
Telemetry(c, t, brake_temp_avg, aero, process_time) ==
    [t |-> t, car_id |-> c.car_id, v_mps |-> c.velocity_mps,
     x_m |-> c.track_position, laps |-> c.laps,
     mu_eff |-> c.mu_effective, throttle |-> c.throttle,
     brake |-> c.brake, gear |-> c.gear, rpm |-> c.rpm,
     brake_temp_avg_C |-> brake_temp_avg,
     downforce_N |-> aero.F_down, drag_N |-> aero.F_drag]

\* The frame of one call run_sim(car, dt, track, sim_t): the car as the
\* statements executed so far have left it, the exception that has escaped
\* ("none" while the call is running) and the locals of the call.
Frame(c) ==
    [car |-> c, exc |-> "none",
     mass |-> c.carSpec.car_weight_kg + c.carSpec.fuel_onboard_kg,
     old_pos |-> 0, old_v |-> 0, F_down |-> 0, F_drag |-> 0,
     brake_fade |-> 0, a_brake_eff |-> 0, brake_temp_avg |-> 0,
     dist_to_apex |-> 0, brake_demand |-> 0, selected |-> FALSE,
     tracked |-> NoneValue, f_temp |-> NoneValue, torque_Nm |-> 0,
     engine_params |-> EmptyDict, top_speed_cap |-> 0, pre_wrap |-> 0]

Raised(fr) == fr.exc # "none"

\* if car.track_position >= car.braking_zone: _find_next_corner(car, track)
FindBrakingZone(fr, trk) ==
    IF fr.car.track_position >= fr.car.braking_zone
    THEN [fr EXCEPT !.car = find_next_corner(fr.car, trk)]
    ELSE fr

StorePreviousState(fr) ==
    [fr EXCEPT !.old_pos = fr.car.track_position, !.old_v = fr.car.velocity_mps]

AeroForces(fr) ==
    LET aero == calculate_aero_forces(fr.car)
    IN  [fr EXCEPT !.F_down = aero.F_down, !.F_drag = aero.F_drag]

\* _calculate_tire_friction(car, mass, F_down); a tire parameter mapping
\* without one of the keys raises KeyError
TireFriction(fr) ==
    IF ~IsNone(fr.car.tire_params) /\ ~TireKeysPresent(fr.car.tire_params)
    THEN [fr EXCEPT !.exc = "KeyError"]
    ELSE [fr EXCEPT !.car.mu_effective =
                        calculate_tire_friction(fr.car, fr.mass, fr.F_down),
                    !.f_temp = TempFactors(fr.car)]

BrakeFade(fr) ==
    LET fade == calculate_brake_fade(fr.car)
    IN  IF Raised(fr) THEN fr
        ELSE [fr EXCEPT !.brake_fade = fade.brake_fade,
                        !.a_brake_eff = fade.a_brake_eff,
                        !.brake_temp_avg = fade.brake_temp_avg]

\* the corner tracking fields of the car
Tracked(c) ==
    [start |-> c.active_corner_start, apex |-> c.active_corner_apex,
     exit |-> c.active_corner_exit, past_apex |-> c.past_apex,
     velo_target |-> c.velo_target, mu_effective |-> c.mu_effective]

\* _update_active_corner(car, track); selected is the value it returns and
\* tracked the corner tracking fields as it leaves them
ActiveCorner(fr, trk) ==
    IF Raised(fr) THEN fr
    ELSE [fr EXCEPT !.car = update_active_corner(fr.car, trk),
                    !.selected = active_corner_updated(fr.car, trk),
                    !.tracked = Tracked(update_active_corner(fr.car, trk))]

CornerDistances(fr, trk) ==
    IF Raised(fr) THEN fr
    ELSE [fr EXCEPT !.dist_to_apex =
                        get_distance_to_corner_points(fr.car, trk).dist_to_apex]

\* _update_throttle_and_brake(car, dist_to_apex, a_brake_eff); brake_demand
\* is the local of that name inside it
ThrottleAndBrake(fr) ==
    IF Raised(fr) THEN fr
    ELSE [fr EXCEPT !.car = update_throttle_and_brake(fr.car, fr.dist_to_apex,
                                                      fr.a_brake_eff),
                    !.brake_demand = calculate_brake_demand(
                                         MarkApex(fr.car, fr.dist_to_apex),
                                         fr.dist_to_apex, fr.a_brake_eff)]

EngineParameters(fr) ==
    LET ep == get_engine_parameters(OrEmpty(fr.car.engine_params))
    IN  IF Raised(fr) THEN fr
        ELSE [fr EXCEPT !.engine_params = ep, !.top_speed_cap = ep.top_speed_cap]

\* _update_gear_and_rpm(car, engine_params, dt); an empty list of gear
\* ratios or an empty torque curve raises IndexError
GearAndRpm(fr, tick_dt) ==
    IF Raised(fr) THEN fr
    ELSE IF Len(fr.engine_params.gear_ratios) = 0
            \/ Len(fr.engine_params.torque_curve) = 0
    THEN [fr EXCEPT !.exc = "IndexError"]
    ELSE [fr EXCEPT !.car = update_gear_and_rpm(fr.car, fr.engine_params, tick_dt)]

\* _calculate_driving_force(car, mass, F_down, engine_params), then the
\* velocity and position update from its acceleration a
VelocityAndPosition(fr, tick_dt) ==
    IF Raised(fr) THEN fr
    ELSE [fr EXCEPT !.torque_Nm = calculate_torque(fr.car, fr.engine_params),
                    !.car =
             Moved(fr.car, fr.old_v,
                   NewVelocity(fr.car.velocity_mps,
                               calculate_driving_force(fr.car, fr.mass, fr.F_down,
                                                       fr.engine_params).a,
                               tick_dt, fr.top_speed_cap),
                   tick_dt)]

ThermalStates(fr, tick_dt) ==
    IF Raised(fr) THEN fr
    ELSE [fr EXCEPT !.car = apply_tire_heating_and_wear(
                                apply_brake_heating_and_cooling(
                                    fr.car, tick_dt, OrEmpty(fr.car.engine_params)),
                                tick_dt, OrEmpty(fr.car.engine_params))]

LapCompletion(fr, trk, tick_dt, t) ==
    IF Raised(fr) THEN fr
    ELSE [fr EXCEPT !.pre_wrap = fr.car.track_position,
                    !.car = handle_lap_completion(fr.car, trk, tick_dt, t, fr.old_pos)]

\* what a returned call leaves behind: the car, the returned telemetry
\* mapping, the exception that escaped ("none" if the call returned) and
\* the locals of the call
Outcome(fr, t, process_time) ==
    [car |-> fr.car,
     tel |-> IF Raised(fr) THEN TelemetryNone
             ELSE Telemetry(fr.car, t, fr.brake_temp_avg,
                            [F_down |-> fr.F_down, F_drag |-> fr.F_drag],
                            process_time),
     exc |-> fr.exc,
     locals |-> [old_pos |-> fr.old_pos, old_v |-> fr.old_v,
                 pre_wrap |-> fr.pre_wrap, dist_to_apex |-> fr.dist_to_apex,
                 brake_demand |-> fr.brake_demand, brake_fade |-> fr.brake_fade,
                 a_brake_eff |-> fr.a_brake_eff, top_speed_cap |-> fr.top_speed_cap,
                 selected |-> fr.selected, tracked |-> fr.tracked,
                 f_temp |-> fr.f_temp, torque_Nm |-> fr.torque_Nm]]

\* One call run_sim(car, dt, track, sim_t), statement by statement.
\* start_time and end_time are the two values read from time.time().
run_sim(c, tick_dt, trk, t, start_time, end_time) ==
    LET f1 == StorePreviousState(FindBrakingZone(Frame(c), trk))
        f2 == BrakeFade(TireFriction(AeroForces(f1)))
        f3 == ThrottleAndBrake(CornerDistances(ActiveCorner(f2, trk), trk))
        f4 == VelocityAndPosition(GearAndRpm(EngineParameters(f3), tick_dt), tick_dt)
        f5 == LapCompletion(ThermalStates(f4, tick_dt), trk, tick_dt, t)
    IN  Outcome(f5, t, end_time - start_time)

----------------------------------------------------------------------------
(* Inputs                                                                  *)

MaxTicks == 120             \* calls of run_sim in one run
MaxLaps == 2                \* the loop bound max_laps of the driver
ParamTicks == 3             \* ticks of a short run
num_cars == 10              \* cars on the starting grid of the race driver
SharedTicks == 10           \* ticks of each of two cars on one track

Straight(s, e) == [type |-> "straight", s_meter |-> M(s), e_meter |-> M(e)]
Corner(s, e, r) == [type |-> "corner", s_meter |-> M(s), e_meter |-> M(e),
                    radius_meter |-> r]
Track(name, len, segs) == [name |-> name, lap_length_meter |-> M(len), segments |-> segs]

Tracks ==
    { Track("drag strip", 40, <<Straight(0, 40)>>),
      Track("one corner", 400, <<Straight(0, 150), Corner(150, 210, 100),
                                 Straight(210, 400)>>),
      Track("two corners", 200, <<Straight(0, 50), Corner(50, 80, 40),
                                  Corner(90, 120, 100), Straight(120, 200)>>),
      Track("hairpin", 120, <<Straight(0, 30), Corner(30, 90, 5),
                              Straight(90, 120)>>) }

DtSet == {50, 1000}
V0Set == {Mps(0), Mps(30), Mps(60)}
\* start positions: on the lap, and just before the line by 1 m and by the
\* distance one 50 ms tick covers while coasting down from 30 m/s
LineEps == {M(1), Travel(Mps(30), Mps(30) - 1, 50)}
\* and, on a track with corners, the same distances before the exit of
\* its first corner
Pos0Set(trk) == {p \in {M(0), M(30), M(40)} : p < trk.lap_length_meter}
                \cup {trk.lap_length_meter - e : e \in LineEps}
                \cup {trk.segments[FirstCorner(trk.segments, 1)].s_meter + M(60) - e :
                        e \in {d \in LineEps : FirstCorner(trk.segments, 1) # 0}}
WallClock == {0, 1}

TireParams ==
    [mu_peak_ref |-> 1500, Fz_ref_N |-> 3500,
     load_sensitivity |-> [k_mu |-> 100],
     temperature |-> [optimal_C |-> DegC(85), cold_C |-> DegC(50), hot_C |-> DegC(120),
                      grip_drop_cold |-> 150, grip_drop_hot |-> 200],
     wear |-> [mu_drop_at_full_wear |-> 200],
     rr |-> [Crr |-> 15]]
AeroParams == [rho |-> 1200, ClA |-> 3000, CdA |-> 1000]
EngineParams == [top_speed_cap_mps |-> Mps(30), shift_time_s |-> 150,
                 gear_ratios |-> <<320, 230>>]
BrakeParams == [fade_start_C |-> DegC(205), fade_end_C |-> DegC(215), fade_min |-> 700]

Profiles ==
    { [tire |-> NoneValue, aero |-> NoneValue, engine |-> NoneValue, brake |-> NoneValue],
      [tire |-> TireParams, aero |-> AeroParams, engine |-> EngineParams,
       brake |-> BrakeParams] }

\* Further parameter files.  Tires that are below their cold breakpoint,
\* and tires that are above their hot breakpoint, at the 70 C a new car
\* has, each with a grip drop of 0.9 on that side
ColdTireParams ==
    [TireParams EXCEPT !.temperature =
        [optimal_C |-> DegC(90), cold_C |-> DegC(80), hot_C |-> DegC(120),
         grip_drop_cold |-> 900, grip_drop_hot |-> 200]]
HotTireParams ==
    [TireParams EXCEPT !.temperature =
        [optimal_C |-> DegC(50), cold_C |-> DegC(30), hot_C |-> DegC(65),
         grip_drop_cold |-> 150, grip_drop_hot |-> 900]]
\* a mapping without one of its keys
Without(m, key) == [k \in DOMAIN m \ {key} |-> m[k]]

TireFiles == {NoneValue, EmptyDict, Without(TireParams, "wear"), TireParams,
              ColdTireParams, HotTireParams}
AeroFiles == {NoneValue, EmptyDict, Without(AeroParams, "rho")}
\* an engine whose redline lies 100 rpm above its default shift_rpm
LowRedlineEngine == [redline_rpm |-> 8300]
EngineFiles == {NoneValue, EmptyDict, Without(EngineParams, "gear_ratios"),
                LowRedlineEngine}
BrakeFiles == {NoneValue, EmptyDict, Without(BrakeParams, "fade_min")}

CarSpec == [fuel_onboard_kg |-> 50, car_weight_kg |-> 1300]

InitialCar(v0, p0, prof) ==
    [CarState("81", CarSpec) EXCEPT !.velocity_mps = v0, !.track_position = p0,
                                    !.tire_params = prof.tire, !.aero_params = prof.aero,
                                    !.engine_params = prof.engine,
                                    !.brake_params = prof.brake]

----------------------------------------------------------------------------
(* The tick loop of sim.py                                                 *)

Setup ==
    /\ track \in Tracks
    /\ dt \in DtSet
    /\ \E v0 \in V0Set, prof \in Profiles :
         \E p0 \in Pos0Set(track) : car = InitialCar(v0, p0, prof)
    /\ sim_t = 0
    /\ tel = TelemetryNone
    /\ exc = "none"
    /\ ticks = 0
    /\ prev = NoneValue
    /\ start = car
    /\ dash = NoneValue

Init ==
    /\ Setup
    /\ shadow = NoneValue

\* the number of calls from the last one that changed the gear to the one
\* now made, -1 while the gear has not changed
ShiftGap ==
    IF IsNone(prev) THEN -1
    ELSE IF prev.since_shift = -1 THEN -1 ELSE prev.since_shift + 1

\* the call has ended with outcome r: the car is as the call left it and
\* lap_event is the mapping it returned; prev also keeps shift_gap and the
\* number of calls since the gear last changed
Returned(r) ==
    /\ car' = r.car
    /\ tel' = r.tel
    /\ exc' = r.exc
    /\ prev' = [car |-> car, locals |-> r.locals, sim_t |-> sim_t,
                shift_gap |-> ShiftGap,
                since_shift |-> IF r.car.gear # car.gear THEN 0 ELSE ShiftGap]

\* one iteration: lap_event = run_sim(car, Delta_Time, track, sim_t);
\* sim_t += Delta_Time; the loop ends once car.laps >= max_laps
Tick ==
    /\ exc = "none"
    /\ car.laps < MaxLaps
    /\ ticks < MaxTicks
    /\ \E start_time \in WallClock, end_time \in WallClock :
         Returned(run_sim(car, dt, track, sim_t, start_time, end_time))
    /\ sim_t' = sim_t + dt
    /\ ticks' = ticks + 1
    /\ UNCHANGED <<track, dt, start, shadow, dash>>

Next == Tick

Spec == Init /\ [][Next]_vars

\* Two independent runs of the same loop from identical inputs, each call
\* with wall-clock readings of its own
InitPair ==
    /\ Setup
    /\ shadow = [car |-> car, tel |-> tel, exc |-> exc]

ShadowReturned(r) == shadow' = [car |-> r.car, tel |-> r.tel, exc |-> r.exc]

TickPair ==
    /\ exc = "none"
    /\ car.laps < MaxLaps
    /\ ticks < MaxTicks
    /\ \E start_time \in WallClock, end_time \in WallClock :
         Returned(run_sim(car, dt, track, sim_t, start_time, end_time))
    /\ \E start_time \in WallClock, end_time \in WallClock :
         ShadowReturned(run_sim(shadow.car, dt, track, sim_t, start_time, end_time))
    /\ sim_t' = sim_t + dt
    /\ ticks' = ticks + 1
    /\ UNCHANGED <<track, dt, start, dash>>

NextPair == TickPair

SpecPair == InitPair /\ [][NextPair]_vars

\* The same loop over its first ticks, for a car whose four parameter
\* mappings are each absent, empty, incomplete or complete
InitParams ==
    /\ track \in Tracks
    /\ dt = 50
    /\ \E tire \in TireFiles, aero \in AeroFiles :
         \E engine \in EngineFiles, brake \in BrakeFiles :
            car = InitialCar(Mps(30), M(0), [tire |-> tire, aero |-> aero,
                                             engine |-> engine, brake |-> brake])
    /\ sim_t = 0
    /\ tel = TelemetryNone
    /\ exc = "none"
    /\ ticks = 0
    /\ prev = NoneValue
    /\ start = car
    /\ shadow = NoneValue
    /\ dash = NoneValue

TickParams == ticks < ParamTicks /\ Tick

NextParams == TickParams

SpecParams == InitParams /\ [][NextParams]_vars

\* The first ticks of a car started from a place on the grid of the race
\* driver, car.track_position = i * 15.0
GridSet(trk) == {p \in {M(15 * i) : i \in 0..(num_cars - 1)} : p < trk.lap_length_meter}

\* the car late in a race, its tires worn almost through
Worn(c) ==
    [c EXCEPT !.tire_FL.wear = 999600, !.tire_FR.wear = 999600,
              !.tire_RL.wear = 999600, !.tire_RR.wear = 999600]

InitGrid ==
    /\ track \in Tracks
    /\ dt \in DtSet
    /\ \E v0 \in V0Set, prof \in Profiles :
         \E p0 \in GridSet(track) :
            car \in {InitialCar(v0, p0, prof), Worn(InitialCar(v0, p0, prof))}
    /\ sim_t = 0
    /\ tel = TelemetryNone
    /\ exc = "none"
    /\ ticks = 0
    /\ prev = NoneValue
    /\ start = car
    /\ shadow = NoneValue
    /\ dash = NoneValue

SpecGrid == InitGrid /\ [][NextParams]_vars

\* Two cars on one Track object, each ticked by calls of run_sim of its
\* own, the calls of the two taken in any order.  car is the first car
\* and shadow holds the second with its own sim_t and tick count; start
\* keeps both cars and the track as they were before the first call.
OtherCar(v0, p0, prof) == [InitialCar(v0, p0, prof) EXCEPT !.car_id = "4"]

InitShared ==
    /\ track \in Tracks
    /\ dt \in DtSet
    /\ car = InitialCar(Mps(30), M(0), [tire |-> TireParams, aero |-> AeroParams,
                                        engine |-> EngineParams, brake |-> BrakeParams])
    /\ \E v0 \in V0Set :
          shadow = [car |-> OtherCar(v0, M(30), [tire |-> NoneValue, aero |-> NoneValue,
                                                engine |-> NoneValue, brake |-> NoneValue]),
                    tel |-> TelemetryNone, exc |-> "none", sim_t |-> 0, ticks |-> 0]
    /\ sim_t = 0
    /\ tel = TelemetryNone
    /\ exc = "none"
    /\ ticks = 0
    /\ prev = NoneValue
    /\ start = [car |-> car, other |-> shadow.car, track |-> track]
    /\ dash = NoneValue

TickCar == ticks < SharedTicks /\ Tick

\* the second car's call has ended with outcome r
OtherReturned(r) ==
    /\ shadow' = [car |-> r.car, tel |-> r.tel, exc |-> r.exc,
                  sim_t |-> shadow.sim_t + dt, ticks |-> shadow.ticks + 1]
    /\ prev' = [car |-> shadow.car, locals |-> r.locals, sim_t |-> shadow.sim_t,
                shift_gap |-> -1,
                since_shift |-> IF IsNone(prev) THEN -1 ELSE prev.since_shift]

TickOther ==
    /\ shadow.exc = "none"
    /\ shadow.car.laps < MaxLaps
    /\ shadow.ticks < SharedTicks
    /\ \E start_time \in WallClock, end_time \in WallClock :
         OtherReturned(run_sim(shadow.car, dt, track, shadow.sim_t, start_time, end_time))
    /\ UNCHANGED <<car, track, dt, sim_t, tel, exc, ticks, start, dash>>

NextShared == TickCar \/ TickOther

SpecShared == InitShared /\ [][NextShared]_vars

----------------------------------------------------------------------------
(* The pit-wall server of dashboard/dash.py.  srv holds the module state   *)
(* of the server: strategy_mode, telemetry_data, pit_commands and          *)
(* cars_pitted.  Tire wear is in 1/1000, fuel in kg, car ids are strings.  *)
(* A request body is a mapping, or None when the request carries no JSON.  *)

PLAYER_CAR_IDS == {"0", "1"}
TIRE_WEAR_THRESHOLD == 700
FUEL_LOW_THRESHOLD == 10
MIN_PIT_LAP == 5
MAX_PIT_LAP == 15

MaxRequests == 4            \* requests the server takes in one run

Put(m, k, v) == [x \in DOMAIN m \cup {k} |-> IF x = k THEN v ELSE m[x]]
Or(x, d) == IF x = 0 THEN d ELSE x                    \* (x or d) of a number

NoPit == [should_pit |-> FALSE]
Command(change_tires, refuel_amount_kg) ==
    [should_pit |-> TRUE, change_tires |-> change_tires,
     refuel_amount_kg |-> refuel_amount_kg]

\* the car ids requests name: the two player cars and a car of the field
CarIds == {"0", "1", "7"}

\* bodies of POST /pit
PitBodies ==
    {NoneValue, [change_tires |-> FALSE], [car_id |-> ""], [car_id |-> "7"]}
    \cup {[car_id |-> id] : id \in PLAYER_CAR_IDS}
    \cup {[car_id |-> id, change_tires |-> FALSE, refuel_amount_kg |-> 20] :
              id \in PLAYER_CAR_IDS}

\* bodies of POST /telemetry
TelemetryBodies ==
    {NoneValue, [laps |-> 6],
     [car_id |-> "7", laps |-> 6, avg_tire_wear |-> 800, fuel_kg |-> 50],
     [car_id |-> "1", laps |-> 16, avg_tire_wear |-> 800, position |-> 120]}
    \cup {[car_id |-> "0", laps |-> l, avg_tire_wear |-> 800, fuel_kg |-> 50] :
              l \in {4, 6}}
    \cup {[car_id |-> "0", laps |-> 6, avg_tire_wear |-> 500, fuel_kg |-> f] :
              f \in {0, 5}}

StartedServer(mode) ==
    [strategy_mode |-> mode, telemetry_data |-> EmptyDict,
     pit_commands |-> EmptyDict, cars_pitted |-> {}]

\* one response: the server state it leaves, its status code and its body
Response(srv, code, body) == [srv |-> srv, code |-> code, body |-> body]

Alias(data, key, other) ==
    IF key \notin DOMAIN data /\ other \in DOMAIN data
    THEN Put(data, key, data[other]) ELSE data

process_auto_strategy(srv, car_id, telemetry) ==
    IF car_id \notin PLAYER_CAR_IDS THEN srv
    ELSE IF car_id \in srv.cars_pitted THEN srv
    ELSE IF Or(Get(telemetry, "laps", 0), 0) < MIN_PIT_LAP
            \/ Or(Get(telemetry, "laps", 0), 0) > MAX_PIT_LAP THEN srv
    ELSE IF Or(Get(telemetry, "avg_tire_wear", 0), 0) > TIRE_WEAR_THRESHOLD
            \/ Or(Get(telemetry, "fuel_kg", 999), 999) < FUEL_LOW_THRESHOLD
         THEN [srv EXCEPT !.pit_commands = Put(@, car_id, Command(TRUE, 60)),
                          !.cars_pitted = @ \cup {car_id}]
    ELSE srv

\* the mapping the handler keeps for the car, stamped at time now
Stamped(data, now) ==
    Put(Alias(Alias(Alias(data, "track_position", "position"),
                    "speed_mps", "velocity_mps"),
              "in_pit_lane", "in_pit"),
        "last_update_iso", now)

Kept(srv, car_id, data) == [srv EXCEPT !.telemetry_data = Put(@, car_id, data)]

receive_telemetry(srv, body, now) ==
    IF Get(OrEmpty(body), "car_id", "") = ""
    THEN Response(srv, 400, [status |-> "error", error |-> "missing car_id"])
    ELSE IF srv.strategy_mode = "auto"
    THEN Response(process_auto_strategy(
                      Kept(srv, body.car_id, Stamped(body, now)),
                      body.car_id, Stamped(body, now)),
                  200, [status |-> "ok"])
    ELSE Response(Kept(srv, body.car_id, Stamped(body, now)), 200, [status |-> "ok"])

\* the handler without its del statement
get_pit_command_NoDelete(srv, car_id) ==
    IF car_id \in DOMAIN srv.pit_commands
    THEN Response(srv, 200, srv.pit_commands[car_id])
    ELSE Response(srv, 200, NoPit)

get_pit_command(srv, car_id) ==
    IF car_id \in DOMAIN srv.pit_commands
    THEN Response([srv EXCEPT !.pit_commands = Without(@, car_id)],
                  200, srv.pit_commands[car_id])
    ELSE Response(srv, 200, NoPit)

send_pit_command(srv, body) ==
    IF Get(OrEmpty(body), "car_id", "") = ""
    THEN Response(srv, 400, [error |-> "car_id required"])
    ELSE IF body.car_id \notin PLAYER_CAR_IDS
    THEN Response(srv, 403, [error |-> "not a player car"])
    ELSE Response([srv EXCEPT !.pit_commands =
                       Put(@, body.car_id,
                           Command(Get(body, "change_tires", TRUE),
                                   Get(body, "refuel_amount_kg", 0)))],
                  200, [status |-> "success", car_id |-> body.car_id])

\* The server taking its requests one at a time.  dash holds srv, the
\* last response (reply) and the number of requests taken; before is
\* the history of the moment the last request came in.  For each player
\* car, latest is the command stored last, waiting tells that a command
\* has been stored since the last GET /pit_command of the car, posted
\* that the entry stored now came with POST /pit, and replaced counts
\* the commands of POST /pit that a later store replaced before any
\* GET /pit_command had returned them.
NoCar ==
    /\ car = NoneValue
    /\ track = NoneValue
    /\ dt = 0
    /\ sim_t = 0
    /\ tel = NoneValue
    /\ exc = "none"
    /\ ticks = 0
    /\ prev = NoneValue
    /\ start = NoneValue
    /\ shadow = NoneValue

InitDash ==
    /\ NoCar
    /\ \E mode \in {"manual", "auto"} :
         dash = [srv |-> StartedServer(mode), reply |-> NoneValue, requests |-> 0,
                 before |-> NoneValue,
                 latest |-> [id \in PLAYER_CAR_IDS |-> NoneValue],
                 waiting |-> {}, posted |-> {},
                 replaced |-> [id \in PLAYER_CAR_IDS |-> 0]]

Moment == [pit_commands |-> dash.srv.pit_commands, latest |-> dash.latest,
           waiting |-> dash.waiting]

\* the request of route for car id has been answered with r, and has
\* stored a command for the car when stores holds
Served(route, id, r, stores) ==
    /\ dash' = [srv |-> r.srv,
                reply |-> [route |-> route, car_id |-> id, code |-> r.code,
                           body |-> r.body],
                requests |-> dash.requests + 1,
                before |-> Moment,
                latest |-> IF stores THEN [dash.latest EXCEPT ![id] = r.srv.pit_commands[id]]
                           ELSE dash.latest,
                waiting |-> IF stores THEN dash.waiting \cup {id}
                            ELSE IF route = "pit_command" THEN dash.waiting \ {id}
                            ELSE dash.waiting,
                posted |-> IF stores /\ route = "pit" THEN dash.posted \cup {id}
                           ELSE IF stores \/ route = "pit_command" THEN dash.posted \ {id}
                           ELSE dash.posted,
                replaced |-> IF stores /\ id \in dash.posted
                             THEN [dash.replaced EXCEPT ![id] = @ + 1]
                             ELSE dash.replaced]
    /\ UNCHANGED <<car, track, dt, sim_t, tel, exc, ticks, prev, start, shadow>>

PostTelemetry ==
    /\ dash.requests < MaxRequests
    /\ \E body \in TelemetryBodies :
         Served("telemetry", Get(OrEmpty(body), "car_id", ""),
                receive_telemetry(dash.srv, body, dash.requests),
                receive_telemetry(dash.srv, body, dash.requests).srv.cars_pitted
                    # dash.srv.cars_pitted)

GetPitCommand ==
    /\ dash.requests < MaxRequests
    /\ \E car_id \in CarIds :
         Served("pit_command", car_id, get_pit_command(dash.srv, car_id), FALSE)

PostPit ==
    /\ dash.requests < MaxRequests
    /\ \E body \in PitBodies :
         Served("pit", Get(OrEmpty(body), "car_id", ""),
                send_pit_command(dash.srv, body),
                send_pit_command(dash.srv, body).code = 200)

NextDash == PostTelemetry \/ GetPitCommand \/ PostPit

SpecDash == InitDash /\ [][NextDash]_vars

\* The server handling its requests in threads, as app.run does: each
\* handler runs in a thread of its own and the threads take turns between
\* the statements of the handlers.  threads holds, for each handler
\* thread, the statement it is at (pc), its request, its local cmd and its
\* response; an exception the handler does not catch ends the request
\* with status 500.  For each player car, stores counts the commands
\* stored and returned the commands handed out by GET /pit_command.
Handlers == {1, 2}

KeyError == [error |-> "KeyError"]

Idle == [pc |-> "idle", route |-> "", car_id |-> "", body |-> NoneValue,
         cmd |-> NoneValue, code |-> 0, reply |-> NoneValue]

Finish(th, code, reply) == [th EXCEPT !.pc = "done", !.code = code, !.reply = reply]

InitThreaded ==
    /\ NoCar
    /\ dash = [srv |-> StartedServer("manual"),
               threads |-> [t \in Handlers |-> Idle],
               requests |-> 0,
               stores |-> [id \in PLAYER_CAR_IDS |-> 0],
               returned |-> [id \in PLAYER_CAR_IDS |-> 0]]

\* thread t has run one statement and is now as th, the server as srv
Stepped(t, th, srv) ==
    /\ dash' = [dash EXCEPT !.threads[t] = th, !.srv = srv]
    /\ UNCHANGED <<car, track, dt, sim_t, tel, exc, ticks, prev, start, shadow>>

\* thread t has run one statement that moved a command of car id
Moved_Command(t, th, srv, count, id) ==
    /\ dash' = [dash EXCEPT !.threads[t] = th, !.srv = srv, ![count][id] = @ + 1]
    /\ UNCHANGED <<car, track, dt, sim_t, tel, exc, ticks, prev, start, shadow>>

Free(t) == dash.threads[t].pc \in {"idle", "done"}

\* a thread takes a request
Accept(t) ==
    /\ Free(t)
    /\ dash.requests < MaxRequests
    /\ \/ \E id \in CarIds :
            dash' = [dash EXCEPT !.requests = @ + 1,
                                 !.threads[t] = [Idle EXCEPT !.pc = "test",
                                                             !.route = "pit_command",
                                                             !.car_id = id]]
       \/ \E body \in PitBodies :
            dash' = [dash EXCEPT !.requests = @ + 1,
                                 !.threads[t] = [Idle EXCEPT !.pc = "store",
                                                             !.route = "pit",
                                                             !.body = body]]
    /\ UNCHANGED <<car, track, dt, sim_t, tel, exc, ticks, prev, start, shadow>>

\* if car_id in pit_commands:
GetTest(t) ==
    /\ dash.threads[t].pc = "test"
    /\ IF dash.threads[t].car_id \in DOMAIN dash.srv.pit_commands
       THEN Stepped(t, [dash.threads[t] EXCEPT !.pc = "read"], dash.srv)
       ELSE Stepped(t, Finish(dash.threads[t], 200, NoPit), dash.srv)

\* cmd = pit_commands[car_id]
GetRead(t) ==
    /\ dash.threads[t].pc = "read"
    /\ IF dash.threads[t].car_id \in DOMAIN dash.srv.pit_commands
       THEN Stepped(t, [dash.threads[t] EXCEPT
                            !.pc = "delete",
                            !.cmd = dash.srv.pit_commands[dash.threads[t].car_id]],
                    dash.srv)
       ELSE Stepped(t, Finish(dash.threads[t], 500, KeyError), dash.srv)

\* del pit_commands[car_id]; return jsonify(cmd)
GetDelete(t) ==
    /\ dash.threads[t].pc = "delete"
    /\ IF dash.threads[t].car_id \in DOMAIN dash.srv.pit_commands
       THEN Moved_Command(t, Finish(dash.threads[t], 200, dash.threads[t].cmd),
                          [dash.srv EXCEPT !.pit_commands =
                               Without(@, dash.threads[t].car_id)],
                          "returned", dash.threads[t].car_id)
       ELSE Stepped(t, Finish(dash.threads[t], 500, KeyError), dash.srv)

\* send_pit_command up to the assignment of pit_commands[car_id]
PitStore(t) ==
    /\ dash.threads[t].pc = "store"
    /\ IF send_pit_command(dash.srv, dash.threads[t].body).code = 200
       THEN Moved_Command(t, [dash.threads[t] EXCEPT !.pc = "log",
                                                     !.car_id = dash.threads[t].body.car_id],
                          send_pit_command(dash.srv, dash.threads[t].body).srv,
                          "stores", dash.threads[t].body.car_id)
       ELSE Stepped(t, Finish(dash.threads[t],
                              send_pit_command(dash.srv, dash.threads[t].body).code,
                              send_pit_command(dash.srv, dash.threads[t].body).body),
                    dash.srv)

\* the print of the stored entry, which reads pit_commands[car_id] again
PitLog(t) ==
    /\ dash.threads[t].pc = "log"
    /\ IF dash.threads[t].car_id \in DOMAIN dash.srv.pit_commands
       THEN Stepped(t, Finish(dash.threads[t], 200,
                              [status |-> "success", car_id |-> dash.threads[t].car_id]),
                    dash.srv)
       ELSE Stepped(t, Finish(dash.threads[t], 500, KeyError), dash.srv)

NextThreaded ==
    \E t \in Handlers :
        \/ Accept(t)
        \/ GetTest(t)
        \/ GetRead(t)
        \/ GetDelete(t)
        \/ PitStore(t)
        \/ PitLog(t)

SpecThreaded == InitThreaded /\ [][NextThreaded]_vars

----------------------------------------------------------------------------
(* Properties                                                              *)

\* a call of run_sim has returned; prev holds the car it was given, the
\* sim_t it was given and its locals
Ticked == ticks > 0 /\ exc = "none"

NoCorners(trk) == FirstCorner(trk.segments, 1) = 0

TireSet == {"tire_FL", "tire_FR", "tire_RL", "tire_RR"}
IsFront(n) == n \in {"tire_FL", "tire_FR"}

\* r > t, r >= t, r < t, r <= t for an exact time r and a whole time t
RatGreater(r, t) == r.num > (t - r.base) * r.den
RatLess(r, t) == r.num < (t - r.base) * r.den
RatLeq(r, t) == r.num <= (t - r.base) * r.den

\* C1: after every call of run_sim the velocity is at least 0 and at most
\* the top speed cap the call resolved from the engine parameters.
C1_VelocityWithinCap ==
    Ticked => /\ car.velocity_mps >= 0
              /\ car.velocity_mps <= prev.locals.top_speed_cap

\* a car that started at rest has been accelerated up to the cap
C1_Witness ==
    /\ Ticked
    /\ start.velocity_mps = 0
    /\ car.velocity_mps = prev.locals.top_speed_cap

\* C2: after every call of run_sim the track position is within
\* [0, lap_length), also when one tick covers more than a lap.
C2_PositionWithinLap ==
    Ticked => /\ car.track_position >= 0
              /\ car.track_position < track.lap_length_meter

\* C3: after every call of run_sim throttle and brake are not both above
\* 0.05: a brake demand above 0.05 leaves throttle 0, any other leaves brake 0.
C3_ThrottleBrakeExclusive ==
    Ticked => /\ ~(car.throttle > 50 /\ car.brake > 50)
              /\ (prev.locals.brake_demand > 50 => car.throttle = 0)
              /\ (prev.locals.brake_demand <= 50 => car.brake = 0)

\* a braking tick that follows a tick on the throttle
C3_Witness ==
    /\ Ticked
    /\ prev.locals.brake_demand > 50
    /\ car.brake > 50
    /\ prev.car.throttle > 50

\* the tick started before the line and ended on or beyond it
CrossedLine ==
    /\ Ticked
    /\ prev.locals.old_pos < track.lap_length_meter
    /\ prev.locals.pre_wrap >= track.lap_length_meter

\* C4 (as stated): a tick that crosses the line adds exactly one lap and
\* records a crossing time strictly between sim_t - dt and sim_t, also
\* when the car lands exactly on the line.
C4_CrossingStrictlyInside ==
    CrossedLine => /\ car.laps = prev.car.laps + 1
                   /\ RatGreater(car.best_lap, prev.sim_t - dt)
                   /\ RatLess(car.best_lap, prev.sim_t)

\* C4 (amended): a tick that crosses the line adds exactly one lap and
\* records a crossing time greater than sim_t - dt and at most sim_t; it
\* is less than sim_t unless the car lands exactly on the line, where it
\* equals sim_t.
C4_CrossingTime ==
    CrossedLine => /\ car.laps = prev.car.laps + 1
                   /\ RatGreater(car.best_lap, prev.sim_t - dt)
                   /\ RatLeq(car.best_lap, prev.sim_t)
                   /\ (prev.locals.pre_wrap > track.lap_length_meter
                         => RatLess(car.best_lap, prev.sim_t))
                   /\ (prev.locals.pre_wrap = track.lap_length_meter
                         => ~RatLess(car.best_lap, prev.sim_t))

\* the car has landed exactly on the line
C4_Witness ==
    /\ CrossedLine
    /\ prev.locals.pre_wrap = track.lap_length_meter
    /\ car.laps = prev.car.laps + 1
    /\ car.track_position = 0

\* C5: two runs from equal car, track, dt and sim_t, each with wall-clock
\* readings of its own, end in equal cars and return equal telemetry.
C5_Deterministic ==
    /\ shadow.car = car
    /\ shadow.tel = tel
    /\ shadow.exc = exc

\* both runs have completed a lap
C5_Witness ==
    /\ Ticked
    /\ ticks > 1
    /\ shadow.tel.laps > 0
    /\ tel.laps > 0

\* C6: on a track without corners a car started from rest keeps the
\* throttle open until the velocity is at the top speed cap, and the
\* velocity never exceeds the cap.
C6_StraightKeepsThrottle ==
    (Ticked /\ NoCorners(track)
       /\ start.velocity_mps = 0 /\ start.track_position = 0)
    => /\ car.velocity_mps <= prev.locals.top_speed_cap
       /\ (car.velocity_mps < prev.locals.top_speed_cap => car.throttle > 0)

\* C7: on a track without corners every call of run_sim returns, leaves
\* velo_target as it was and leaves brake at 0.
C7_NoCornersBrakeInert ==
    (ticks > 0 /\ NoCorners(track))
    => /\ exc = "none"
       /\ car.velo_target = prev.car.velo_target
       /\ car.brake = 0

\* the last call ran at full brake (full throttle), and so did the call
\* before it if there was one
FullBrakeRun == Ticked /\ car.brake = 1000 /\ (ticks = 1 \/ prev.car.brake = 1000)
FullThrottleRun == Ticked /\ car.throttle = 1000 /\ (ticks = 1 \/ prev.car.throttle = 1000)

\* C8 (as stated): in a run of ticks at full brake, or at full throttle,
\* no tire's temperature and no tire's wear decreases from tick to tick.
C8_TiresMonotone ==
    (FullBrakeRun \/ FullThrottleRun)
    => \A n \in TireSet : /\ car[n].temp_C >= prev.car[n].temp_C
                          /\ car[n].wear >= prev.car[n].wear

\* the temperature at which the cooling of a tire equals its heating at
\* full brake (braking) or at full throttle
TireEquilibrium(n, ep, braking) ==
    LET share == IF braking THEN (IF IsFront(n) THEN 10 ELSE 6)
                            ELSE (IF IsFront(n) THEN 4 ELSE 10)
        heat == IF braking THEN Get(ep, "tire_heat_brake", 18000)
                           ELSE Get(ep, "tire_heat_accel", 8000)
    IN  DegC(25) + (((share * heat) \div 10) * 1000) \div Get(ep, "tire_cool_rate", 80)

\* C8 (amended): no tire's wear ever decreases; in a run of ticks at full
\* brake, or at full throttle, the temperature of a tire does not decrease
\* in a tick that it enters at or below the temperature at which its
\* cooling equals its heating (25 C + heating rate / cooling rate).
C8_TiresMonotoneBelowEquilibrium ==
    Ticked =>
    \A n \in TireSet :
       /\ car[n].wear >= prev.car[n].wear
       /\ (FullBrakeRun
             /\ prev.car[n].temp_C <= TireEquilibrium(n, OrEmpty(car.engine_params), TRUE)
           => car[n].temp_C >= prev.car[n].temp_C)
       /\ (FullThrottleRun
             /\ prev.car[n].temp_C <= TireEquilibrium(n, OrEmpty(car.engine_params), FALSE)
           => car[n].temp_C >= prev.car[n].temp_C)

\* a second tick at full throttle has heated and worn a rear tire
C8_Witness ==
    /\ FullThrottleRun
    /\ ticks > 1
    /\ prev.car.tire_RL.temp_C <= TireEquilibrium("tire_RL", OrEmpty(car.engine_params), FALSE)
    /\ car.tire_RL.temp_C > prev.car.tire_RL.temp_C
    /\ car.tire_RL.wear > prev.car.tire_RL.wear

\* C9: one corner of radius 100 m, friction 1.3, a car approaching at
\* 60 m/s from outside the braking zone with 50 ms ticks: in the first tick
\* that ends at or beyond the apex the velocity is at most the target speed.
C9_SlowedByApex ==
    (Ticked /\ track.name = "one corner" /\ dt = 50
       /\ IsNone(car.tire_params)
       /\ start.velocity_mps = Mps(60) /\ start.track_position <= M(40)
       /\ car.laps = 0
       /\ prev.locals.old_pos < car.active_corner_apex
       /\ car.track_position >= car.active_corner_apex)
    => car.velocity_mps <= car.velo_target

\* C10: the fade factor is 1.0 up to fade_start, fade_min from fade_end
\* on and between the two in between; the effective deceleration is never
\* below 0.5 m/s^2 and, at unchanged friction, is not lower than in the
\* last call once the fade factor has reached fade_min.
C10_FadeFactor ==
    LET bp == BrakeFadeParams(car)
        f == calculate_brake_fade(car)
    IN  /\ (f.brake_temp_avg <= bp.fade_start => f.brake_fade = 1000)
        /\ (f.brake_temp_avg >= bp.fade_end => f.brake_fade = bp.fade_min)
        /\ f.brake_fade >= bp.fade_min
        /\ f.brake_fade <= 1000
        /\ f.a_brake_eff >= 500
        /\ (Ticked /\ prev.locals.brake_fade = bp.fade_min
              /\ f.brake_temp_avg >= bp.fade_end
            => f.a_brake_eff >= prev.locals.a_brake_eff)

\* the brakes have stayed at or above fade_end from one call to the next
C10_Witness ==
    /\ Ticked
    /\ prev.locals.brake_fade = BrakeFadeParams(car).fade_min
    /\ calculate_brake_fade(car).brake_temp_avg >= BrakeFadeParams(car).fade_end
    /\ calculate_brake_fade(car).brake_fade = BrakeFadeParams(car).fade_min


\* the corner segments of the track
CornerSegs(trk) == {i \in 1..Len(trk.segments) : IsCorner(trk.segments[i])}

\* the call was given a car standing exactly on the exit of its active
\* corner, with past_apex false, on a track that has a corner
AtExit ==
    /\ Ticked
    /\ CornerSegs(track) # {}
    /\ prev.car.active_corner_exit >= 0
    /\ prev.car.track_position = prev.car.active_corner_exit
    /\ ~prev.car.past_apex

\* C11: a call made with track_position equal to active_corner_exit and
\* past_apex false, on a track with a corner, selects the active corner
\* again in that call: the boundaries are written from a corner segment
\* and past_apex is false when the control policy runs.
C11_ReselectedAtExit ==
    AtExit => /\ prev.locals.selected
              /\ ~prev.locals.tracked.past_apex
              /\ \E i \in CornerSegs(track) :
                    LET b == get_corner_boundaries(track.segments[i], M(60))
                    IN  /\ prev.locals.tracked.start = b.start_s
                        /\ prev.locals.tracked.apex = b.apex_s
                        /\ prev.locals.tracked.exit = b.end_s

\* the car came to the exit in the call before
C11_Witness ==
    /\ AtExit
    /\ ticks > 1
    /\ prev.locals.selected
    /\ prev.locals.tracked.exit = prev.car.active_corner_exit


\* the gear ratios in force for the car
GearRatios == get_engine_parameters(OrEmpty(car.engine_params)).gear_ratios

\* C12: after every call of run_sim the gear is at least 1 and at most the
\* number of configured gear ratios, and differs from the gear before the
\* call by at most one.
C12_GearWithinRatios ==
    Ticked => /\ car.gear \in 1..Len(GearRatios)
              /\ car.gear - prev.car.gear \in {-1, 0, 1}

\* the call has shifted up into the top gear with the engine at the redline
C12_Witness ==
    /\ Ticked
    /\ car.gear = Len(GearRatios)
    /\ prev.car.gear = car.gear - 1
    /\ car.rpm = get_engine_parameters(OrEmpty(car.engine_params)).redline_rpm


\* C13: the temperature grip factor of every tire lies in [0.2, 1.0],
\* whatever the breakpoints and grip drops of the tire parameters,
\* also at or below cold_C and at or above hot_C
C13_TempFactorClamped ==
    Ticked /\ ~IsNone(prev.locals.f_temp) =>
        \A n \in TireSet : prev.locals.f_temp[n] \in 200..1000

\* C14: a tick never raises because a parameter mapping is None or lacks
\* some or all of its keys
C14_NeverRaises == ticks > 0 => exc = "none"


\* the car that n calls of run_sim alone on track trk, the first at time
\* t, make of car c
RECURSIVE Alone(_, _, _, _)
Alone(c, n, t, trk) ==
    IF n = 0 THEN c
    ELSE Alone(run_sim(c, dt, trk, t, 0, 0).car, n - 1, t + dt, trk)

SharedObjects(c) == <<c.carSpec, c.tire_params, c.aero_params, c.engine_params,
                      c.brake_params>>

TrailWindow ==
    /\ Ticked
    /\ prev.locals.dist_to_apex > 0
    /\ prev.locals.dist_to_apex <= M(1) \div 2
    /\ prev.car.track_position < prev.locals.tracked.apex
    /\ prev.car.velocity_mps > prev.locals.tracked.velo_target

\* C16: within 0.5 m before the apex and above the target speed the
\* brake applied is distance-to-apex / 0.5
C16_TrailBrakeRamp ==
    TrailWindow => car.brake = (prev.locals.dist_to_apex * 1000) \div (M(1) \div 2)


\* the call was made with the car between the apex and the exit of its
\* active corner, the apex already marked as passed
BeyondApex ==
    /\ Ticked
    /\ prev.car.past_apex
    /\ ~prev.locals.selected
    /\ prev.car.track_position > prev.car.active_corner_apex
    /\ prev.car.track_position < prev.car.active_corner_exit

\* C17: past the apex the brake is 0 and the throttle is min(1, d / 5),
\* d the distance travelled beyond the apex
C17_ExitThrottleRamp ==
    BeyondApex =>
        /\ car.brake = 0
        /\ car.throttle =
              Min(1000, (prev.car.track_position - prev.car.active_corner_apex) \div (M(5) \div 1000))


Radii(trk) == {trk.segments[i].radius_meter : i \in CornerSegs(trk)}

\* the corner segments from which the active corner of the call can have
\* been taken
ActiveSegs == {i \in CornerSegs(track) :
                 track.segments[i].s_meter = prev.locals.tracked.start}

\* the call was made between the start and the apex of the active corner
\* on a track whose corners differ in radius, for a car without tire
\* parameters, whose mu_effective keeps its initial value
ApproachingApex ==
    /\ Ticked
    /\ Cardinality(Radii(track)) >= 2
    /\ IsNone(prev.car.tire_params)
    /\ prev.car.track_position >= prev.locals.tracked.start
    /\ prev.car.track_position < prev.locals.tracked.apex

\* C18: between the start and the apex of the active corner the target
\* speed of the control policy is sqrt(max(0, mu * G * r)) with r the
\* radius of the active corner
C18_TargetOfActiveCorner ==
    ApproachingApex =>
        \E i \in ActiveSegs :
            prev.locals.tracked.velo_target =
                CornerSpeed(prev.locals.tracked.mu_effective, track.segments[i].radius_meter)


\* C19: past_apex is true after every tick whose distance to the apex is
\* at most 1.0 m; in a tick farther from the apex it keeps its value when
\* no active corner is selected and is false when one is selected
C19_PastApexLifecycle ==
    Ticked =>
        /\ prev.locals.dist_to_apex <= M(1) => car.past_apex
        /\ prev.locals.dist_to_apex > M(1) /\ ~prev.locals.selected =>
                car.past_apex = prev.car.past_apex
        /\ prev.locals.dist_to_apex > M(1) /\ prev.locals.selected => ~car.past_apex

\* a corner whose apex had been marked has been left: the call selected
\* a new active corner and the flag is false again
C19_Witness ==
    /\ Ticked
    /\ ~NoCorners(track)
    /\ prev.car.past_apex
    /\ prev.locals.selected
    /\ ~car.past_apex


\* car.shift_timer of the call after its countdown
TimerCounted ==
    IF prev.car.shift_timer > 0 THEN Max(0, prev.car.shift_timer - dt)
    ELSE prev.car.shift_timer

ShiftTime == get_engine_parameters(OrEmpty(car.engine_params)).shift_time_s

GearChanged == Ticked /\ car.gear # prev.car.gear

\* C20: a tick whose shift timer is positive after the countdown leaves
\* the gear alone and has engine torque 0; a tick that changes the gear
\* sets the timer to shift_time_s; and from one gear change to the next
\* there are at least ceil(shift_time_s / dt) ticks
C20_ShiftLockout ==
    /\ Ticked /\ TimerCounted > 0 =>
            car.gear = prev.car.gear /\ prev.locals.torque_Nm = 0
    /\ GearChanged => car.shift_timer = ShiftTime
    /\ GearChanged /\ prev.shift_gap # -1 =>
            prev.shift_gap >= (ShiftTime + dt - 1) \div dt

\* the gear has changed for the second time in a run of 50 ms ticks, as
\* soon as the timer of the first change allowed it
C20_Witness ==
    /\ GearChanged
    /\ prev.shift_gap = (ShiftTime + dt - 1) \div dt
    /\ prev.shift_gap > 1
    /\ prev.car.shift_timer > 0


Engine == get_engine_parameters(OrEmpty(car.engine_params))

\* the engine speed of the car at velocity v in gear g, floored at idle
\* and capped at redline
EngineRpm(v, g) ==
    Max(Engine.idle_rpm,
        Min(Engine.redline_rpm,
            RpmFromSpeed(v, Engine.gear_ratios[g], Engine.final_drive,
                         Engine.wheel_radius_m)))

UpshiftDue(rpm) ==
    /\ rpm >= Engine.shift_rpm
    /\ prev.car.gear < Len(Engine.gear_ratios)
    /\ (car.throttle > 300 \/ rpm >= Engine.shift_rpm + 200)

DownshiftDue(rpm) ==
    /\ ~UpshiftDue(rpm)
    /\ rpm <= Engine.downshift_rpm
    /\ prev.car.gear > 1
    /\ (car.brake > 200 \/ car.throttle < 100)

GearStep(rpm) == IF UpshiftDue(rpm) THEN 1 ELSE IF DownshiftDue(rpm) THEN -1 ELSE 0

\* C21: in a tick whose shift timer is 0 after the countdown the gear goes
\* up by one, down by one or stays as the engine speed of the pre-tick
\* velocity in the current gear, floored at idle and capped at redline,
\* and the throttle and brake of the tick decide; car.rpm is then that
\* engine speed in the new gear
C21_ShiftDecision ==
    Ticked /\ TimerCounted = 0 =>
        /\ car.gear = prev.car.gear
                       + GearStep(EngineRpm(prev.car.velocity_mps, prev.car.gear))
        /\ car.rpm = EngineRpm(prev.car.velocity_mps, car.gear)


\* the corner segments that start strictly ahead of the position of the
\* call
StartsAhead == {i \in CornerSegs(track) :
                  track.segments[i].s_meter > prev.car.track_position}

Lowest(S) == CHOOSE i \in S : \A j \in S : i <= j

\* the call reached its braking zone and so searched for the next corner
SearchedCorner ==
    /\ Ticked
    /\ CornerSegs(track) # {}
    /\ prev.car.track_position >= prev.car.braking_zone

\* C22: the corner search sets braking_zone to the start of the first
\* corner in list order that starts strictly ahead of the car, and to the
\* start of the first corner of the list when none does
C22_NextCornerStrictlyAhead ==
    SearchedCorner =>
        car.braking_zone =
            track.segments[Lowest(IF StartsAhead # {} THEN StartsAhead
                                  ELSE CornerSegs(track))].s_meter

\* the search was made by a car standing exactly on the start of a corner
\* and took another corner
C22_Witness ==
    /\ SearchedCorner
    /\ \E i \in CornerSegs(track) :
          track.segments[i].s_meter = prev.car.track_position
    /\ car.braking_zone # prev.car.track_position


\* C23: an active corner selected from a corner segment, which carries
\* its end position e_meter, has that end as its exit and the midpoint of
\* start and end as its apex
C23_ExitFromSegmentEnd ==
    Ticked /\ prev.locals.selected =>
        \E i \in ActiveSegs :
            /\ prev.locals.tracked.exit = track.segments[i].e_meter
            /\ prev.locals.tracked.apex =
                   (track.segments[i].s_meter + track.segments[i].e_meter) \div 2


BrakeSet == {"brake_FL_C", "brake_FR_C", "brake_RL_C", "brake_RR_C"}

\* C24: after every call each tire has temp_C >= 0 and wear in [0, 1], the
\* wear not lower than before the call, and each brake is at 25 C or more
C24_ThermalRanges ==
    Ticked =>
        /\ \A n \in TireSet :
              /\ car[n].temp_C >= 0
              /\ car[n].wear >= 0 /\ car[n].wear <= 1000000
              /\ car[n].wear >= prev.car[n].wear
        /\ \A b \in BrakeSet : car[b] >= DegC(25)

\* a tick under braking has taken the front tires to the limit of wear
C24_Witness ==
    /\ Ticked
    /\ car.brake > 100
    /\ prev.car.tire_FL.wear < 1000000
    /\ car.tire_FL.wear = 1000000
    /\ car.tire_RL.wear < 1000000


\* distance covered since the line was first crossed at lap 0
Odometer(c) == c.laps * track.lap_length_meter + c.track_position

\* C25: every tick adds ((old velocity + new velocity) / 2) * dt to
\* laps * lap_length + track_position; laps goes up by one in the ticks
\* whose position before the wrap is at or beyond the lap length and is
\* unchanged in the others
C25_DistanceConserved ==
    Ticked =>
        /\ Odometer(car) = Odometer(prev.car)
                            + Travel(prev.car.velocity_mps, car.velocity_mps, dt)
        /\ car.laps = prev.car.laps
                       + (IF prev.locals.pre_wrap >= track.lap_length_meter THEN 1 ELSE 0)

\* a lap has been counted in a tick that ended beyond the line
C25_Witness ==
    /\ Ticked
    /\ car.laps = prev.car.laps + 1
    /\ car.track_position > 0
    /\ car.velocity_mps # prev.car.velocity_mps


CornerStarts == {track.segments[i].s_meter : i \in CornerSegs(track)}

\* the start of the corner that follows the corner starting at s along
\* the lap
NextStart(s) ==
    LET later == {x \in CornerStarts : x > s}
    IN  IF later # {} THEN CHOOSE x \in later : \A y \in later : x <= y
        ELSE CHOOSE x \in CornerStarts : \A y \in CornerStarts : x <= y

\* the call selected a new active corner for a car that had one
LeftCorner ==
    /\ Ticked
    /\ Cardinality(CornerStarts) >= 2
    /\ prev.car.active_corner_exit >= 0
    /\ prev.locals.selected

\* C26: on a track with several corners the active corner selected when
\* the car has passed the exit of the last one is the next corner along
\* the lap
C26_NextCornerInOrder ==
    LeftCorner => prev.locals.tracked.start = NextStart(prev.car.active_corner_start)


\* what the control policy and the integrator of the next call start from
Motion(c) == <<c.velocity_mps, c.throttle, c.brake, c.track_position, c.laps,
               c.past_apex, c.active_corner_apex, c.active_corner_exit>>

\* the car stands with throttle 0 and the next call leaves it as it is
Stalled ==
    /\ Ticked
    /\ car.velocity_mps = 0
    /\ car.throttle = 0
    /\ Motion(run_sim(car, dt, track, sim_t, 0, 0).car) = Motion(car)

\* C27: the car always makes progress towards the next lap; it never
\* comes to stand with throttle 0 in a state that further calls of
\* run_sim do not change
C27_NeverStalled == ~Stalled


\* C28: the loop passes sim_t = k * dt to its k-th call; the crossing time
\* recorded for a lap completed in that call lies within the simulated
\* time the call covers, from k * dt to (k + 1) * dt, and is not negative
C28_CrossingWithinCall ==
    CrossedLine =>
        /\ prev.sim_t = (ticks - 1) * dt
        /\ ~RatLess(car.best_lap, prev.sim_t)
        /\ RatLeq(car.best_lap, prev.sim_t + dt)
        /\ ~RatLess(car.best_lap, 0)


\* the last request was GET /pit_command/<id>
LastGet(id) ==
    /\ ~IsNone(dash.reply)
    /\ dash.reply.route = "pit_command"
    /\ dash.reply.car_id = id

\* the last request was a POST /pit the server turned down
Rejected ==
    /\ ~IsNone(dash.reply)
    /\ dash.reply.route = "pit"
    /\ dash.reply.code \in {400, 403}

\* a GET /pit_command returns the command stored last for the car when
\* one has been stored since the car's last GET, and should_pit false
\* otherwise; it leaves no entry for the car and the other entries alone
Delivery ==
    \A id \in CarIds :
        LastGet(id) =>
            /\ dash.reply.code = 200
            /\ dash.reply.body = IF id \in dash.before.waiting
                                 THEN dash.before.latest[id] ELSE NoPit
            /\ dash.srv.pit_commands = Without(dash.before.pit_commands, id)
            /\ id \notin DOMAIN dash.srv.pit_commands

\* C29, as the code has it: with the requests handled one at a time, the
\* first GET /pit_command/<car_id> after a command was stored returns the
\* command stored last for the car and removes it, every later GET for
\* the car returns should_pit false until another command is stored, and
\* a POST /pit answered 400 or 403 leaves pit_commands unchanged; a
\* command replaced by a later store before that GET is not delivered
C29_LatestCommandOnce ==
    /\ Delivery
    /\ Rejected => dash.srv.pit_commands = dash.before.pit_commands

\* a command of POST /pit was replaced, the one stored after it was handed
\* out, and the GET after that found nothing
C29_Witness ==
    \E id \in PLAYER_CAR_IDS :
        /\ LastGet(id)
        /\ dash.reply.body = NoPit
        /\ ~IsNone(dash.latest[id])
        /\ dash.replaced[id] > 0

\* C29, as stated: every command stored by POST /pit for a player car is
\* delivered exactly once, by the first GET /pit_command/<car_id> after
\* it, so none is replaced before it has been returned
C29_EveryCommandOnce ==
    /\ C29_LatestCommandOnce
    /\ \A id \in PLAYER_CAR_IDS : dash.replaced[id] = 0


\* no command is handed out more often than commands were stored
AtMostOnce == \A id \in PLAYER_CAR_IDS : dash.returned[id] <= dash.stores[id]

\* a handler of GET /pit_command has ended with an exception
GetFailed(t) ==
    /\ dash.threads[t].route = "pit_command"
    /\ dash.threads[t].code = 500

\* C30: with the membership test, the read and the delete of two handlers
\* of GET /pit_command/<car_id> for the same car interleaved, a stored
\* command is returned to at most one of them and neither handler fails on
\* an entry the other has removed
C30_ConcurrentGets ==
    /\ AtMostOnce
    /\ \A t \in Handlers : ~GetFailed(t)

=============================================================================
